---------------------------- MODULE Spec2Model ----------------------------
(***************************************************************************)
(* Model of oslo-quant's strategy core (python/strategy/_classes.py) and   *)
(* of the netfonds ingestion step (spiders/netfonds.py).                   *)
(*                                                                         *)
(* Python objects live in a heap indexed by object reference, so that      *)
(* deepcopy and in-place assignment to instrument.data are distinguishable *)
(* from aliasing.  Dates are day ordinals 1..MaxDate.  A ticker is         *)
(* identified by its alphabetical rank, so that the alphabetical order of  *)
(* tickers is the order of the integers.  Prices are integers.             *)
(***************************************************************************)
EXTENDS Integers, Sequences, FiniteSets, TLC

VARIABLES
    money, portfolio, today, from_date, to_date,  \* Strategy fields
    phase,        \* "Initialized" until the first execute(), then "Executing"
    heap,         \* object reference -> Instrument object (ticker, data)
    tickerOrder,  \* the order in which markets.get_tickers() enumerates
    last,         \* the operation that ran last
    ret,          \* what that operation returned or raised, and its arguments
    order,        \* one Order object
    nfills,       \* number of Order.fill calls made on it
    firstFill,    \* the Order as the first fill call left it
    share         \* one Share object

vars == <<money, portfolio, today, from_date, to_date, phase, heap,
          tickerOrder, last, ret, order, nfills, firstFill, share>>

strategyVars == <<money, portfolio, today, from_date, to_date, phase>>
orderVars == <<order, nfills, firstFill>>

-----------------------------------------------------------------------------
(* Bounds *)

MaxDate == 3
MaxQuantity == 2
MaxFills == 2
MaxLines == 3

Dates == 1..MaxDate
Tickers == {1, 2}
(* Python's None; an optional argument that is given is the one-element    *)
(* sequence of its value.                                                  *)
None == <<>>
Some(x) == <<x>>

(* The errors of the specification's taxonomy, as the code raises them. *)
DoesNotExistYet == "ValueError"
MissingPriceField == "KeyError"
NotFound == "NotFound"

-----------------------------------------------------------------------------
(* Sequences *)

Last(s) == s[Len(s)]
Front(s) == SubSeq(s, 1, Len(s) - 1)
Range(s) == {s[i] : i \in 1..Len(s)}
SetMax(S) == CHOOSE x \in S : \A y \in S : y <= x
SetMin(S) == CHOOSE x \in S : \A y \in S : x <= y

RECURSIVE SortedSeqOf(_)
SortedSeqOf(S) ==
    IF S = {} THEN <<>> ELSE <<SetMin(S)>> \o SortedSeqOf(S \ {SetMin(S)})

Enumerations(S) ==
    {p \in [1..Cardinality(S) -> S] : \A x \in S : \E i \in DOMAIN p : p[i] = x}

-----------------------------------------------------------------------------
(* The market data provider (package markets): the full-history store.     *)

(* The instrument object that markets holds for ticker t is object t. *)
markets_get_instrument(t) == t

markets_get_tickers == tickerOrder

get_first_date(inst) == inst.data[1].date
get_last_date(inst) == Last(inst.data).date

existed_at_date(inst, d) ==
    Len(inst.data) > 0 /\ get_first_date(inst) <= d

(* Zero-based row index of the record at d, or of the last one before d. *)
get_day_index_or_last_before(inst, d) ==
    SetMax({i \in 1..Len(inst.data) : inst.data[i].date <= d}) - 1

get_day_or_last_before(inst, d) ==
    IF \E i \in 1..Len(inst.data) : inst.data[i].date <= d
    THEN [status |-> "ok",
          day_data |-> inst.data[get_day_index_or_last_before(inst, d) + 1]]
    ELSE [status |-> NotFound, day_data |-> None]

markets_trading_days(h, f, t) ==
    SortedSeqOf({d \in Dates : /\ f <= d
                               /\ d <= t
                               /\ \E k \in Tickers : \E i \in 1..Len(h[k].data) :
                                      h[k].data[i].date = d})


-----------------------------------------------------------------------------
(* Python values and objects *)

PyDate(d) == [type |-> "date", v |-> d]
PySequence(s) == [type |-> "sequence", v |-> s]

NoRet == [status |-> "none", ticker |-> 0, refs |-> <<>>, value |-> <<>>,
          arg |-> <<>>]

(* The objects the market data provider holds: the full-history store. *)
StoreRefs == Tickers
StoreOf(h) == [r \in StoreRefs |-> h[r]]

NewRef(h) == SetMax(DOMAIN h) + 1

(* copy.deepcopy: a new object with equal contents. *)
deepcopy(h, ref) ==
    [heap |-> [r \in DOMAIN h \cup {NewRef(h)} |->
                  IF r = NewRef(h) THEN h[ref] ELSE h[r]],
     ref |-> NewRef(h)]

(* np.delete(data, np.s_[k:]): the rows from position k on are removed. *)
np_delete_from(data, k) ==
    SubSeq(data, 1, IF k < Len(data) THEN k ELSE Len(data))

-----------------------------------------------------------------------------
(* class Strategy *)

(* Mutant: the instrument is not copied, the store's own object is cut. *)
get_instrument_aliased(h, ticker, d) ==
    LET ref == markets_get_instrument(ticker)
        instrument == h[ref]
    IN  IF ~existed_at_date(instrument, d)
        THEN [status |-> DoesNotExistYet, heap |-> h, ref |-> 0]
        ELSE LET row_index == get_day_index_or_last_before(instrument, d)
             IN  [status |-> "ok",
                  heap |-> [h EXCEPT ![ref].data =
                                np_delete_from(@, row_index + 1)],
                  ref |-> ref]

(* Mutant: the rows are cut one position too late. *)
get_instrument_late(h, ticker, d) ==
    LET c == deepcopy(h, markets_get_instrument(ticker))
        instrument == c.heap[c.ref]
    IN  IF ~existed_at_date(instrument, d)
        THEN [status |-> DoesNotExistYet, heap |-> h, ref |-> 0]
        ELSE LET row_index == get_day_index_or_last_before(instrument, d)
             IN  [status |-> "ok",
                  heap |-> [c.heap EXCEPT ![c.ref].data =
                                np_delete_from(@, row_index + 2)],
                  ref |-> c.ref]

(* Mutant: the existence check is missing; an instrument that does not     *)
(* exist yet resolves to no row (index -1) and gives an empty view.        *)
get_instrument_unchecked(h, ticker, d) ==
    LET c == deepcopy(h, markets_get_instrument(ticker))
        instrument == c.heap[c.ref]
        row_index == IF existed_at_date(instrument, d)
                     THEN get_day_index_or_last_before(instrument, d)
                     ELSE -1
    IN  [status |-> "ok",
         heap |-> [c.heap EXCEPT ![c.ref].data =
                       np_delete_from(@, row_index + 1)],
         ref |-> c.ref]

(* Strategy.get_instrument(ticker) with self.today = d, on heap h: the     *)
(* outcome, the heap after the call and the returned object.  A copy made  *)
(* by a call that raises is unreachable and is dropped.                    *)
get_instrument(h, ticker, d) ==
    LET c == deepcopy(h, markets_get_instrument(ticker))
        instrument == c.heap[c.ref]
    IN  IF ~existed_at_date(instrument, d)
        THEN [status |-> DoesNotExistYet, heap |-> h, ref |-> 0]
        ELSE LET row_index == get_day_index_or_last_before(instrument, d)
             IN  [status |-> "ok",
                  heap |-> [c.heap EXCEPT ![c.ref].data =
                                np_delete_from(@, row_index + 1)],
                  ref |-> c.ref]

(* Mutant: the ValueError of a ticker that does not exist yet is not       *)
(* caught and ends the loop.                                               *)
RECURSIVE get_instruments_uncaught(_, _, _)
get_instruments_uncaught(h, all_instruments, d) ==
    IF all_instruments = <<>>
    THEN [status |-> "ok", heap |-> h, refs |-> <<>>]
    ELSE LET i == get_instrument(h, all_instruments[1], d)
         IN  IF i.status = "ok"
             THEN LET rest == get_instruments_uncaught(i.heap,
                                  Tail(all_instruments), d)
                  IN  [rest EXCEPT !.refs = <<i.ref>> \o @]
             ELSE [status |-> i.status, heap |-> h, refs |-> <<>>]

(* Strategy.get_instruments() with self.today = d: the loop over           *)
(* markets.get_tickers() in its enumeration order.                         *)
RECURSIVE get_instruments(_, _, _)
get_instruments(h, all_instruments, d) ==
    IF all_instruments = <<>>
    THEN [status |-> "ok", heap |-> h, refs |-> <<>>]
    ELSE LET i == get_instrument(h, all_instruments[1], d)
         IN  IF i.status = "ok"
             THEN LET rest == get_instruments(i.heap, Tail(all_instruments), d)
                  IN  [rest EXCEPT !.refs = <<i.ref>> \o @]
             ELSE get_instruments(h, Tail(all_instruments), d)

(* Strategy.trading_days: a generator; the sequence of what it yields. *)
trading_days(h, f, t) == << PySequence(markets_trading_days(h, f, t)) >>


(* Mutant: execute forgets to store the new day. *)
execute_stale(self, today_, portfolio_, money_) ==
    [self EXCEPT !.portfolio = portfolio_, !.money = money_]

(* Strategy.execute(today, portfolio, money): the base-class body, on the  *)
(* strategy's fields.                                                      *)
execute(self, today_, portfolio_, money_) ==
    [self EXCEPT !.today = today_, !.portfolio = portfolio_, !.money = money_]

Self == [money |-> money, portfolio |-> portfolio, today |-> today,
         from_date |-> from_date, to_date |-> to_date]

-----------------------------------------------------------------------------
(* Inputs *)

(* One record of the history: date, open, high, low, close, volume, value  *)
(* reduced to the date and the two price fields of the valuation rule.     *)
Record(t, d, fields) ==
    [f \in {"date"} \cup fields |->
        IF f = "date" THEN d ELSE IF f = "close" THEN 10 * d + t ELSE 20 * d + t]

(* The histories ingestion can deliver for ticker t: strictly increasing   *)
(* dates, at least one record.                                             *)
Histories(t) ==
    {[i \in 1..Cardinality(S) |->
         Record(t, SortedSeqOf(S)[i], {"close", "value"})] :
       S \in (SUBSET Dates) \ {{}}}

Stores == {h \in [StoreRefs -> [ticker : Tickers, data : UNION {Histories(t) : t \in Tickers}]] :
              \A t \in Tickers : h[t].ticker = t /\ h[t].data \in Histories(t)}

Share(ticker, quantity, price) ==
    [ticker |-> ticker, quantity |-> quantity, price |-> price]

(* The (portfolio, money) pairs a caller hands to a strategy: all in cash,  *)
(* or one share bought with it.                                            *)
EmptyPortfolio == <<>>
Holdings == {<<EmptyPortfolio, 100>>, <<[t \in {1} |-> Share(1, 1, 10)], 90>>}

NoOrder == [filled |-> FALSE]
NoShare == Share(0, 0, 0)

-----------------------------------------------------------------------------
(* Operations of a strategy *)

(* Strategy.__init__(money, portfolio, from_date, to_date) *)
StrategyInit(m, p, f, t) ==
    /\ money = m
    /\ portfolio = p
    /\ today = f
    /\ from_date = f
    /\ to_date = t
    /\ phase = "Initialized"

Execute ==
    \E t \in Dates, pm \in Holdings :
        LET p == pm[1]
            m == pm[2]
            after == execute(Self, t, p, m)
        IN  /\ today' = after.today
            /\ portfolio' = after.portfolio
            /\ money' = after.money
            /\ from_date' = after.from_date
            /\ to_date' = after.to_date
            /\ phase' = "Executing"
            /\ heap' = StoreOf(heap)
            /\ last' = "execute"
            /\ ret' = [NoRet EXCEPT !.arg = <<t, p, m>>]
            /\ UNCHANGED <<tickerOrder, order, nfills, firstFill, share>>

GetInstrument ==
    \E ticker \in Tickers :
        LET r == get_instrument(StoreOf(heap), ticker, today)
        IN  /\ heap' = r.heap
            /\ last' = "get_instrument"
            /\ ret' = [NoRet EXCEPT !.status = r.status, !.ticker = ticker,
                           !.refs = IF r.status = "ok" THEN <<r.ref>> ELSE <<>>]
            /\ UNCHANGED <<strategyVars, tickerOrder, order, nfills,
                           firstFill, share>>

GetInstruments ==
    LET r == get_instruments(StoreOf(heap), markets_get_tickers, today)
    IN  /\ heap' = r.heap
        /\ last' = "get_instruments"
        /\ ret' = [NoRet EXCEPT !.status = r.status, !.refs = r.refs]
        /\ UNCHANGED <<strategyVars, tickerOrder, order, nfills,
                       firstFill, share>>

(* The strategy cuts the last row off one of the views it was handed. *)
TruncateView ==
    \E i \in 1..Len(ret.refs) :
        /\ last \in {"get_instrument", "get_instruments"}
        /\ Len(heap[ret.refs[i]].data) > 0
        /\ heap' = [heap EXCEPT ![ret.refs[i]].data = Front(@)]
        /\ last' = "truncate"
        /\ ret' = [ret EXCEPT !.arg = <<i>>]
        /\ UNCHANGED <<strategyVars, tickerOrder, order, nfills,
                       firstFill, share>>

TradingDays ==
    \E f \in Dates, t \in Dates :
        /\ heap' = StoreOf(heap)
        /\ last' = "trading_days"
        /\ ret' = [NoRet EXCEPT !.status = "ok", !.arg = <<f, t>>,
                       !.value = trading_days(heap, f, t)]
        /\ UNCHANGED <<strategyVars, tickerOrder, order, nfills,
                       firstFill, share>>

(* A strategy over every store the ingestion can deliver and every order   *)
(* in which the provider can enumerate the tickers.                        *)
InitViews ==
    /\ \E pm \in Holdings : StrategyInit(pm[2], pm[1], 1, MaxDate)
    /\ heap \in Stores
    /\ tickerOrder \in Enumerations(Tickers)
    /\ last = "init"
    /\ ret = NoRet
    /\ order = NoOrder
    /\ nfills = 0
    /\ firstFill = NoOrder
    /\ share = NoShare

NextViews ==
    \/ Execute
    \/ GetInstrument
    \/ GetInstruments
    \/ TruncateView

SpecViews == InitViews /\ [][NextViews]_vars


(* The store of the specification's scenario: one ticker with a gap in its *)
(* history, one that is listed later.                                      *)
ScenarioStore ==
    [t \in StoreRefs |->
        [ticker |-> t,
         data |-> IF t = 1
                  THEN <<Record(1, 1, {"close", "value"}),
                         Record(1, MaxDate, {"close", "value"})>>
                  ELSE <<Record(t, 2, {"close", "value"})>>]]

(* A strategy over every horizon, driven by any caller. *)
InitDays ==
    /\ \E pm \in Holdings, f \in Dates, t \in Dates :
           StrategyInit(pm[2], pm[1], f, t)
    /\ heap = ScenarioStore
    /\ tickerOrder = SortedSeqOf(Tickers)
    /\ last = "init"
    /\ ret = NoRet
    /\ order = NoOrder
    /\ nfills = 0
    /\ firstFill = NoOrder
    /\ share = NoShare

NextDays ==
    \/ Execute
    \/ TradingDays

SpecDays == InitDays /\ [][NextDays]_vars


-----------------------------------------------------------------------------
(* class Order.  An object is the map from its attribute names to values,  *)
(* so an attribute that was never assigned is absent.                      *)

SetAttr(obj, name, val) ==
    [k \in DOMAIN obj \cup {name} |-> IF k = name THEN val ELSE obj[k]]

(* Order.__init__(ticker, action, quantity, price) *)
Order(ticker, action, quantity, price) ==
    [ticker |-> ticker, action |-> action, quantity |-> quantity,
     price |-> price, filled |-> FALSE, filled_price |-> None, cost |-> None]

(* broker.calculate_brokerage(order): a pure, non-negative function of the *)
(* order's action, quantity and filled price: a minimum fee plus a share   *)
(* of the traded amount.                                                   *)
calculate_brokerage(o) ==
    1 + (o["quantity"] * o["filled_price"]) \div 10

(* Order.fill(filled_price): the five assignments, in order. *)
fill(self, filled_price) ==
    LET s1 == SetAttr(self, "filled_price", filled_price)
        s2 == SetAttr(s1, "filled", TRUE)
        s3 == SetAttr(s2, "brokerage", calculate_brokerage(s2))
        s4 == SetAttr(s3, "cost", s3["quantity"] * s3["filled_price"])
    IN  SetAttr(s4, "total", s4["cost"] + s4["brokerage"])

Prices == 1..MaxQuantity

Orders ==
    {Order(t, a, q, p) : t \in Tickers, a \in {"buy", "sell"},
                         q \in 1..MaxQuantity,
                         p \in {None} \cup {Some(x) : x \in Prices}}

Fill ==
    \E filled_price \in Prices :
        /\ nfills < MaxFills
        /\ order' = fill(order, filled_price)
        /\ nfills' = nfills + 1
        /\ firstFill' = IF nfills = 0 THEN order' ELSE firstFill
        /\ last' = "fill"
        /\ ret' = [NoRet EXCEPT !.status = "ok", !.arg = <<filled_price>>]
        /\ UNCHANGED <<strategyVars, heap, tickerOrder, share>>

InitOrder ==
    /\ StrategyInit(100, EmptyPortfolio, 1, MaxDate)
    /\ heap = ScenarioStore
    /\ tickerOrder = SortedSeqOf(Tickers)
    /\ last = "init"
    /\ ret = NoRet
    /\ order \in Orders
    /\ nfills = 0
    /\ firstFill = NoOrder
    /\ share = NoShare

NextOrder == Fill

SpecOrder == InitOrder /\ [][NextOrder]_vars

-----------------------------------------------------------------------------
(* class Share *)

(* Mutant: the 'value' field is preferred to the 'close' field. *)
get_value_value_first(h, self, date) ==
    LET instrument == h[markets_get_instrument(self.ticker)]
        found == get_day_or_last_before(instrument, date)
        day_data == found.day_data
    IN  IF found.status # "ok"
        THEN [status |-> found.status, value |-> None]
        ELSE IF "value" \in DOMAIN day_data
        THEN [status |-> "ok", value |-> self.quantity * day_data["value"]]
        ELSE IF "close" \in DOMAIN day_data
        THEN [status |-> "ok", value |-> self.quantity * day_data["close"]]
        ELSE [status |-> MissingPriceField, value |-> None]

(* Share.get_value(date): a failed lookup propagates; day_data['close'],   *)
(* on KeyError day_data['value'], whose KeyError propagates.               *)
get_value(h, self, date) ==
    LET instrument == h[markets_get_instrument(self.ticker)]
        found == get_day_or_last_before(instrument, date)
        day_data == found.day_data
    IN  IF found.status # "ok"
        THEN [status |-> found.status, value |-> None]
        ELSE IF "close" \in DOMAIN day_data
        THEN [status |-> "ok", value |-> self.quantity * day_data["close"]]
        ELSE IF "value" \in DOMAIN day_data
        THEN [status |-> "ok", value |-> self.quantity * day_data["value"]]
        ELSE [status |-> MissingPriceField, value |-> None]

(* Histories whose records carry any of the two price fields, or none. *)
SparseHistories(t) ==
    {[i \in 1..Cardinality(DOMAIN kinds) |->
         Record(t, SortedSeqOf(DOMAIN kinds)[i],
                kinds[SortedSeqOf(DOMAIN kinds)[i]])] :
       kinds \in UNION {[S -> SUBSET {"close", "value"}] :
                           S \in (SUBSET Dates) \ {{}}}}

Shares == {Share(t, q, 10) : t \in Tickers, q \in (-MaxQuantity)..MaxQuantity}

GetValue ==
    \E date \in Dates :
        LET r == get_value(heap, share, date)
        IN  /\ last' = "get_value"
            /\ ret' = [NoRet EXCEPT !.status = r.status, !.arg = <<date>>,
                           !.value = r.value]
            /\ UNCHANGED <<strategyVars, heap, tickerOrder, orderVars, share>>

InitShare ==
    /\ StrategyInit(100, EmptyPortfolio, 1, MaxDate)
    /\ \E hist \in SparseHistories(1) :
           heap = [ScenarioStore EXCEPT ![1].data = hist]
    /\ tickerOrder = SortedSeqOf(Tickers)
    /\ last = "init"
    /\ ret = NoRet
    /\ order = NoOrder
    /\ nfills = 0
    /\ firstFill = NoOrder
    /\ share \in Shares

NextShare == GetValue

SpecShare == InitShare /\ [][NextShare]_vars


-----------------------------------------------------------------------------
(* NetfondsSpider.parse_sdv.  A line is the sequence of its ';'-separated  *)
(* items; a matrix row is <<date, open, high, low, close, volume, value>>. *)

SdvHeader == "quote_date;paper;exch;open;high;low;close;volume;value"

(* datetime.strptime(s, '%Y%m%d').timestamp(), in days: None when the      *)
(* string is not in that format.                                           *)
strptime_timestamp(str) ==
    IF str = "20200102" THEN Some(2)
    ELSE IF str = "20200106" THEN Some(6)
    ELSE None

(* float(s): None when the string is no number. *)
float(str) ==
    IF str = "10.0" THEN Some(10)
    ELSE IF str = "12.0" THEN Some(12)
    ELSE IF str = "100" THEN Some(100)
    ELSE IF str = "1000" THEN Some(1000)
    ELSE None

ZeroRow == <<0, 0, 0, 0, 0, 0, 0>>

(* The body of the try block for one line: the row, or None when the       *)
(* unpacking or a conversion raises.                                       *)
parse_line(line) ==
    IF Len(line) # 9 THEN None
    ELSE LET items == <<strptime_timestamp(line[1]), float(line[4]),
                        float(line[5]), float(line[6]), float(line[7]),
                        float(line[8]), float(line[9])>>
         IN  IF \E i \in 1..7 : items[i] = None
             THEN None
             ELSE Some([i \in 1..7 |-> items[i][1]])

(* Field by field in dtype order, which is how np.sort(order='date')       *)
(* compares rows: by date, ties by the remaining fields.                   *)
RowLess(a, b) ==
    \E i \in 1..7 : a[i] < b[i] /\ \A j \in 1..(i - 1) : a[j] = b[j]

RowLeq(a, b) == a = b \/ RowLess(a, b)

RemoveAt(s, i) == SubSeq(s, 1, i - 1) \o SubSeq(s, i + 1, Len(s))

RECURSIVE np_sort(_)
np_sort(matrix) ==
    IF matrix = <<>> THEN <<>>
    ELSE LET i == CHOOSE k \in 1..Len(matrix) :
                      \A j \in 1..Len(matrix) : RowLeq(matrix[k], matrix[j])
         IN  <<matrix[i]>> \o np_sort(RemoveAt(matrix, i))

(* The loop that fills the matrix, from line number n on.  The except      *)
(* block calls self.log.error(...) with the undefined name file_path:      *)
(* self.log is Spider.log, a method with no attribute 'error', so the      *)
(* handler itself raises and parse_sdv ends there.                         *)
RECURSIVE fill_matrix(_, _, _)
fill_matrix(matrix, lines, n) ==
    IF n > Len(lines) THEN [status |-> "ok", matrix |-> matrix]
    ELSE LET row == parse_line(lines[n])
         IN  IF row = None
             THEN [status |-> "AttributeError", matrix |-> matrix]
             ELSE fill_matrix([matrix EXCEPT ![n] = row[1]], lines, n + 1)

(* parse_sdv(response): text is the header line followed by the lines. *)
parse_sdv(header, lines) ==
    IF header # SdvHeader
    THEN [status |-> "AssertionError", matrix |-> <<>>]
    ELSE LET filled == fill_matrix([i \in 1..Len(lines) |-> ZeroRow], lines, 1)
         IN  IF filled.status # "ok"
             THEN [status |-> filled.status, matrix |-> <<>>]
             ELSE [status |-> "ok", matrix |-> np_sort(filled.matrix)]

SdvLine(date, price) ==
    <<date, "AFG", "OSE", price, price, price, price, "100", "1000">>

SdvLines ==
    {SdvLine(d, c) : d \in {"20200102", "20200106", "2020-01-02"},
                     c \in {"10.0", "12.0"}}
    \cup {<<"20200102", "AFG">>}

SdvTables == UNION {[1..n -> SdvLines] : n \in 0..MaxLines}

(* The callback runs once on the response it is handed. *)
ParseSdv ==
    \E header \in {SdvHeader, ""}, lines \in SdvTables :
        LET r == parse_sdv(header, lines)
        IN  /\ last = "init"
            /\ last' = "parse_sdv"
            /\ ret' = [NoRet EXCEPT !.status = r.status,
                           !.arg = <<header, lines>>, !.value = r.matrix]
            /\ UNCHANGED <<strategyVars, heap, tickerOrder, orderVars, share>>

InitSdv ==
    /\ StrategyInit(100, EmptyPortfolio, 1, MaxDate)
    /\ heap = ScenarioStore
    /\ tickerOrder = SortedSeqOf(Tickers)
    /\ last = "init"
    /\ ret = NoRet
    /\ order = NoOrder
    /\ nfills = 0
    /\ firstFill = NoOrder
    /\ share = NoShare

NextSdv == ParseSdv

SpecSdv == InitSdv /\ [][NextSdv]_vars


-----------------------------------------------------------------------------
(* Properties *)

Views == {ret.refs[i] : i \in 1..Len(ret.refs)}
DatesOf(data) == {data[i].date : i \in 1..Len(data)}
ExistsAt(t, d) == \E i \in 1..Len(heap[t].data) : heap[t].data[i].date <= d

(* The point-in-time view of ticker t at day d, from the full history:     *)
(* the records dated d or earlier, in the order of the history.            *)
PointInTime(t, d) == SelectSeq(heap[t].data, LAMBDA r : r.date <= d)

(* C1: the instrument get_instrument(ticker) returns holds exactly the     *)
(* records of the full history up to and including the index that          *)
(* get_day_index_or_last_before(self.today) resolves to, which are the     *)
(* records dated self.today or earlier, and none dated later.              *)
C1_ViewIsHistoryUpToToday ==
    (last = "get_instrument" /\ ret.status = "ok") =>
        LET view == heap[ret.refs[1]]
            full == heap[markets_get_instrument(ret.ticker)]
            row_index == get_day_index_or_last_before(full, today)
        IN  /\ view.ticker = ret.ticker
            /\ view.data = SubSeq(full.data, 1, row_index + 1)
            /\ view.data = PointInTime(ret.ticker, today)
            /\ \A i \in 1..Len(view.data) : view.data[i].date <= today

(* A view cut in a gap of the history, with later records in the store. *)
C1_Witness ==
    /\ last = "get_instrument"
    /\ ret.status = "ok"
    /\ today \notin DatesOf(heap[ret.ticker].data)
    /\ Len(heap[ret.refs[1]].data) >= 1
    /\ Len(heap[ret.refs[1]].data) < Len(heap[ret.ticker].data)

(* C2: a view obtained during execute(today, ...) holds no record dated    *)
(* today or later.                                                         *)
C2_ViewsEndBeforeToday ==
    (phase = "Executing" /\ last \in {"get_instrument", "get_instruments"}) =>
        \A v \in Views : \A i \in 1..Len(heap[v].data) :
            heap[v].data[i].date < today

(* C3: the second and every later fill call fails with AlreadyFilled and   *)
(* leaves the order as the first call set it.                              *)
C3_SecondFillRejected ==
    (last = "fill" /\ nfills >= 2) =>
        /\ ret.status = "AlreadyFilled"
        /\ order = firstFill

(* C4: no step changes an instrument of the full-history store; a         *)
(* returned view is an object of its own, not one of the store and not     *)
(* another view; cutting one view changes no other view.                   *)
C4_StoreNeverChanges ==
    [][/\ \A t \in StoreRefs : heap'[t] = heap[t]
       /\ \A i \in 1..Len(ret'.refs) :
              /\ ret'.refs[i] \notin StoreRefs
              /\ \A j \in 1..Len(ret'.refs) :
                     ret'.refs[i] = ret'.refs[j] => i = j
       /\ last' = "truncate" =>
              \A j \in 1..Len(ret.refs) :
                  j # ret'.arg[1] => heap'[ret.refs[j]] = heap[ret.refs[j]]
      ]_vars

(* One of two views was cut, at a day the store has later records for. *)
C4_Witness ==
    /\ last = "truncate"
    /\ Len(ret.refs) = 2
    /\ \E t \in Tickers : Last(heap[t].data).date > today
    /\ \E v \in Views : Len(heap[v].data) = 0

(* C5: get_instrument(ticker) raises exactly when self.today is before the *)
(* instrument's first record date and returns a view otherwise; a call     *)
(* that raises returns nothing and leaves money, portfolio, today and the  *)
(* store as they were.                                                     *)
C5_RaisesIffNotYetExisting ==
    [][last' = "get_instrument" =>
          /\ ret'.status \in {"ok", DoesNotExistYet}
          /\ ret'.status = DoesNotExistYet <=>
                 today < get_first_date(heap[ret'.ticker])
          /\ ret'.status = "ok" <=> ExistsAt(ret'.ticker, today)
          /\ ret'.status = "ok" => Len(ret'.refs) = 1
          /\ ret'.status = DoesNotExistYet =>
                 /\ ret'.refs = <<>>
                 /\ money' = money
                 /\ portfolio' = portfolio
                 /\ today' = today
                 /\ \A t \in StoreRefs : heap'[t] = heap[t]
      ]_vars

(* The call raised during an execute, with holdings the caller passed. *)
C5_Witness ==
    /\ last = "get_instrument"
    /\ ret.status = DoesNotExistYet
    /\ phase = "Executing"
    /\ portfolio # EmptyPortfolio
    /\ today < get_first_date(heap[ret.ticker])

IsAscending(seq) == \A i \in 1..(Len(seq) - 1) : seq[i] < seq[i + 1]
ViewTickers == [i \in 1..Len(ret.refs) |-> heap[ret.refs[i]].ticker]

C7_YieldsTheCalendarDates ==
    last = "trading_days" =>
        LET calendar == markets_trading_days(heap, ret.arg[1], ret.arg[2])
        IN  /\ Len(ret.value) = Len(calendar)
            /\ \A i \in 1..Len(ret.value) : ret.value[i] = PyDate(calendar[i])

(* C8: get_value(D) is quantity times the price of the latest record dated *)
(* D or earlier, the price being close if the record has it, else value;   *)
(* NotFound when there is no such record, MissingPriceField when the       *)
(* record has neither field.                                               *)
C8_ValueIsQuantityTimesPrice ==
    last = "get_value" =>
        LET data == heap[share.ticker].data
            upTo == {r \in Range(data) : r.date <= ret.arg[1]}
        IN  IF upTo = {}
            THEN ret.status = NotFound
            ELSE LET rec == CHOOSE r \in upTo : \A q \in upTo : q.date <= r.date
                 IN  IF "close" \in DOMAIN rec
                     THEN /\ ret.status = "ok"
                          /\ ret.value = share.quantity * rec.close
                     ELSE IF "value" \in DOMAIN rec
                     THEN /\ ret.status = "ok"
                          /\ ret.value = share.quantity * rec.value
                     ELSE ret.status = MissingPriceField

(* A short position valued in a gap of the history, at a record that has   *)
(* both price fields.                                                      *)
C8_Witness ==
    /\ last = "get_value"
    /\ ret.status = "ok"
    /\ share.quantity < 0
    /\ ret.arg[1] \notin DatesOf(heap[share.ticker].data)
    /\ \E r \in Range(heap[share.ticker].data) :
           /\ DOMAIN r = {"date", "close", "value"}
           /\ ret.value = share.quantity * r.close

(* C9 as stated: after each execute call self.today is strictly later than *)
(* before it and within [from_date, to_date]; from_date and to_date are    *)
(* unchanged.                                                              *)
C9_TodayAlwaysAdvances ==
    [][last' = "execute" =>
          /\ today' > today
          /\ from_date' <= today'
          /\ today' <= to_date'
          /\ from_date' = from_date
          /\ to_date' = to_date
      ]_vars

(* C9 as amended: execute stores the today, portfolio and money it is      *)
(* handed and changes nothing else; today is strictly later than before    *)
(* and within the horizon whenever the date handed in is.                  *)
C9_TodayIsWhatTheCallerPassed ==
    [][last' = "execute" =>
          /\ today' = ret'.arg[1]
          /\ portfolio' = ret'.arg[2]
          /\ money' = ret'.arg[3]
          /\ from_date' = from_date
          /\ to_date' = to_date
          /\ (ret'.arg[1] > today /\ from_date <= ret'.arg[1]
                  /\ ret'.arg[1] <= to_date) =>
                 (today' > today /\ from_date' <= today' /\ today' <= to_date')
      ]_vars

(* An execute call that moved today forward inside the horizon. *)
C9_Witness ==
    /\ last = "execute"
    /\ from_date < today
    /\ today <= to_date
    /\ portfolio # EmptyPortfolio

(* C10: the table parse_sdv holds after its sort step has strictly         *)
(* increasing dates and every row of it was parsed from an input line.     *)
C10_SortedTableHasDistinctDates ==
    (last = "parse_sdv" /\ ret.status = "ok") =>
        /\ \A i \in 1..(Len(ret.value) - 1) :
               ret.value[i][1] < ret.value[i + 1][1]
        /\ \A i \in 1..Len(ret.value) :
               \E n \in 1..Len(ret.arg[2]) :
                   parse_line(ret.arg[2][n]) = Some(ret.value[i])

=============================================================================
